---- MODULE Spec2Model ----
(***************************************************************************)
(* TransactionBuilder (packages/transaction-builder/src/tx-builder.ts) and *)
(* JsonRpcProvider (packages/provider/src/json-rpc-provider.ts).           *)
(*                                                                         *)
(* A JavaScript async method runs to completion between two awaits, so an  *)
(* action is one synchronous stretch of a method: from its entry to its    *)
(* first await, or from the settling of an awaited promise to the next     *)
(* await, return or throw.  The external signer and the network settle     *)
(* the promises the methods await; they are the environment.               *)
(***************************************************************************)
EXTENDS Integers, Sequences, FiniteSets, TLC

\* ------------------------------------------------------------------ bounds
\* Math.random() is sampled at 0, 1/2^p, ..., MaxEntropy/2^p and at the
\* largest double below 1, (2^p - 1)/2^p, where p is MantissaBits.
MaxEntropy == 1
\* The bits of a double's mantissa (53 in IEEE 754 binary64, scaled down).
MantissaBits == 4
\* The external signer may switch its account at most this many times.
MaxAccountSwitches == 1

\* The concurrent asynchronous calls in flight on the one builder.
CallIds == {"c1", "c2"}

\* The largest options.retryAttempts a caller of the provider passes.
MaxRetryAttempts == 1

\* ------------------------------------------------------------- JS values
Undefined == [type |-> "undefined"]
Null == [type |-> "null"]
Str(s) == [type |-> "string", value |-> s]
BigIntOf(n) == [type |-> "bigint", value |-> n]
Num(n) == [type |-> "number", value |-> n]

\* `!v` for the values the model passes around.
Falsy(v) == v.type \in {"undefined", "null"}

\* A destructuring default `x = d` applies when the argument is undefined.
Default(v, d) == IF v.type = "undefined" THEN d ELSE v

Digit(d) ==
  CASE d = 0 -> "0" [] d = 1 -> "1" [] d = 2 -> "2" [] d = 3 -> "3"
    [] d = 4 -> "4" [] d = 5 -> "5" [] d = 6 -> "6" [] d = 7 -> "7"
    [] d = 8 -> "8" [] d = 9 -> "9"

RECURSIVE DecimalString(_)
\* Number.prototype.toString / BigInt.prototype.toString of a non-negative
\* integer below 10^21: its decimal digits.
DecimalString(n) ==
  IF n < 10 THEN Digit(n) ELSE DecimalString(n \div 10) \o Digit(n % 10)

\* --------------------------------------------------------------- doubles
RECURSIVE Pow2(_)
Pow2(n) == IF n = 0 THEN 1 ELSE 2 * Pow2(n - 1)

\* Number.MAX_SAFE_INTEGER: 2^53 - 1 for a mantissa of 53 bits.
MAX_SAFE_INTEGER == Pow2(MantissaBits) - 1

\* The doubles Math.random() can return, as numerators over 2^MantissaBits:
\* 0 <= random < 1.
DoublesBelowOne == 0 .. (Pow2(MantissaBits) - 1)

\* N / D rounded to the nearest integer, a tie to the even one.
RoundHalfEven(N, D) ==
  LET q == N \div D
      r == N % D
  IN IF 2 * r < D THEN q
     ELSE IF 2 * r > D THEN q + 1
     ELSE IF q % 2 = 0 THEN q ELSE q + 1

RECURSIVE ScaleOf(_, _, _)
\* The power of two U for which N * U / D has MantissaBits bits before the
\* point: 1 / U is the spacing of the doubles around N / D (N / D below
\* 2^MantissaBits).
ScaleOf(N, D, U) ==
  IF N * U >= Pow2(MantissaBits - 1) * D THEN U ELSE ScaleOf(N, D, 2 * U)

\* The double nearest to the rational N / D, as a fraction num / den.
ToDouble(N, D) ==
  IF N = 0 THEN [num |-> 0, den |-> 1]
  ELSE LET U == ScaleOf(N, D, 1) IN [num |-> RoundHalfEven(N * U, D), den |-> U]

\* Math.floor
MathFloor(x) == x.num \div x.den

\* Number(s) for the decimal digits of a safe integer: the number they denote.
NumberOf(s) == CHOOSE m \in 0 .. Pow2(MantissaBits) : DecimalString(m) = s

\* Math.floor left out: the product itself is printed.
entropyOf_notFloored(sample) ==
  LET product == ToDouble(sample * MAX_SAFE_INTEGER, Pow2(MantissaBits))
  IN IF product.num % product.den = 0
       THEN DecimalString(product.num \div product.den)
       ELSE DecimalString(product.num \div product.den) \o "."
              \o DecimalString(((product.num % product.den) * 10000) \div product.den)

\* Lines 113-115, for the double `sample / 2^MantissaBits` that Math.random()
\* returned.  Number.prototype.toString prints an integer below 10^21 by its
\* decimal digits, and every safe integer is below 10^21.
entropyOf(sample) ==
  LET product == ToDouble(sample * MAX_SAFE_INTEGER, Pow2(MantissaBits))
      floored == MathFloor(product)
      big == BigIntOf(floored)
      number == NumberOf(DecimalString(big.value))
  IN DecimalString(number)

\* What Math.random() returns in the runs explored.
MathRandom == (0 .. MaxEntropy) \cup {Pow2(MantissaBits) - 1}

\* Buffer.from(hex, 'hex') and buffer.toString('hex').
BufferFromHex(h) == [bytes |-> h]
ToHex(b) == b.bytes

\* ------------------------------------------------------------- constants
DEFAULT_BASE_FEE == Str("10000")
CoinDenomUpokt == "upokt"
ChainIDs == {"mainnet", "testnet", "localnet"}

\* ----------------------------------------------------------- collaborators
\* The accounts the external signer can report.
Accounts == 1 .. (MaxAccountSwitches + 1)
AccountPublicKey(a) == "pk" \o DecimalString(a)
AccountAddress(a) == "addr" \o DecimalString(a)

TheSigner == [type |-> "object", ref |-> "signer"]
TheProvider == [type |-> "object", ref |-> "provider"]

VARIABLES
  builder,        \* the TransactionBuilder instance: its three private fields
  lastSync,       \* outcome of the latest synchronous method call
  signerAccount,  \* the account the external signer currently reports
  switches,       \* how often the signer switched its account
  op,             \* per call: the async method called
  pc,             \* per call: where the call is suspended
  args,           \* per call: the arguments it was called with
  frame,          \* per call: its local variables
  ret,            \* per call: what the promise settled to
  trace           \* per call: the collaborator invocations, in order

vars == <<builder, lastSync, signerAccount, switches, op, pc, args, frame, ret, trace>>

NoValue == Undefined

\* The outcome of a synchronous method call: it returned a value or threw.
Returned(o, v) == [op |-> o, threw |-> "none", returned |-> v]
Threw(o, e) == [op |-> o, threw |-> e, returned |-> NoValue]

\* The settling of a promise.
Fulfilled(v) == [state |-> "fulfilled", value |-> v]
Rejected(e) == [state |-> "rejected", value |-> e]
Pending == [state |-> "pending", value |-> NoValue]

\* ------------------------------------------------------------------ Init
EmptyFrame ==
  [ entropy      |-> NoValue,   \* tx-builder.ts:113
    signer       |-> NoValue,   \* tx-builder.ts:117, the encoder
    bytesToSign  |-> NoValue,   \* tx-builder.ts:126
    signRequest  |-> NoValue,   \* the argument of this.signer.sign
    signSettled  |-> Pending,   \* what the promise of this.signer.sign settled to
    txBytes      |-> NoValue,   \* tx-builder.ts:128
    marshalledTx |-> NoValue,   \* tx-builder.ts:130
    rawHexBytes  |-> NoValue,   \* tx-builder.ts:135
    tx           |-> NoValue,   \* tx-builder.ts:156 / the parameter of :166
    sent         |-> NoValue,   \* the argument of this.provider.sendTransaction
    perform      |-> NoValue,   \* json-rpc-provider.ts:81, the perform frames
    request      |-> NoValue,   \* the latest HTTP request of fetch
    fetchSettled |-> Pending,   \* what the promise of fetch settled to
    performed    |-> Pending,   \* what the promise of perform settled to
    appRes       |-> NoValue,   \* json-rpc-provider.ts:204, getType
    sendResult   |-> Pending ]  \* what provider.sendTransaction settled to

Init ==
  /\ builder = [state |-> "none"]
  /\ lastSync = Returned("none", NoValue)
  /\ signerAccount = 1
  /\ switches = 0
  /\ op = [c \in CallIds |-> "idle"]
  /\ pc = [c \in CallIds |-> "idle"]
  /\ args = [c \in CallIds |-> NoValue]
  /\ frame = [c \in CallIds |-> EmptyFrame]
  /\ ret = [c \in CallIds |-> Pending]
  /\ trace = [c \in CallIds |-> <<>>]

Constructed == builder.state = "constructed"

callVars == <<op, pc, args, frame, ret, trace>>
signerVars == <<signerAccount, switches>>

\* ------------------------------------------------- TransactionBuilder, sync
\* The collaborators taken as they come, to be missed when first used.
Constructor_unchecked(provider, signer, chainID) ==
  /\ builder.state = "none"
  /\ builder' = [ state    |-> "constructed",
                  provider |-> provider,
                  signer   |-> signer,
                  chainID  |-> Default(chainID, Str("mainnet")).value ]
  /\ lastSync' = Returned("constructor", NoValue)
  /\ UNCHANGED <<signerVars, callVars>>

\* new TransactionBuilder({provider, signer, chainID})
Constructor(provider, signer, chainID) ==
  /\ builder.state = "none"
  /\ IF Falsy(provider)
       THEN /\ lastSync' = Threw("constructor", "NoProviderError")
            /\ UNCHANGED builder
       ELSE IF Falsy(signer)
         THEN /\ lastSync' = Threw("constructor", "NoSignerError")
              /\ UNCHANGED builder
         ELSE /\ builder' = [ state    |-> "constructed",
                              provider |-> provider,
                              signer   |-> signer,
                              chainID  |-> Default(chainID, Str("mainnet")).value ]
              /\ lastSync' = Returned("constructor", NoValue)
  /\ UNCHANGED <<signerVars, callVars>>

\* getChainID(): a getter, it changes nothing.
getChainID == builder.chainID

\* The chain ID assigned before it is checked.
setChainID_assignsFirst(id) ==
  /\ Constructed
  /\ builder' = [builder EXCEPT !.chainID = id]
  /\ lastSync' = IF id \in {"mainnet", "testnet", "localnet"}
                   THEN Returned("setChainID", NoValue)
                   ELSE Threw("setChainID", "InvalidChainIDError")
  /\ UNCHANGED <<signerVars, callVars>>

setChainID(id) ==
  /\ Constructed
  /\ IF id = "mainnet" \/ id = "testnet" \/ id = "localnet"
       THEN /\ builder' = [builder EXCEPT !.chainID = id]
            /\ lastSync' = Returned("setChainID", NoValue)
       ELSE /\ lastSync' = Threw("setChainID", "InvalidChainIDError")
            /\ UNCHANGED builder
  /\ UNCHANGED <<signerVars, callVars>>

\* --------------------------------------------------------- external signer
\* this.signer.getAddress() and this.signer.getPublicKey(): the signer answers
\* for the account it holds when asked.
SignerGetAddress == AccountAddress(signerAccount)
SignerGetPublicKey == AccountPublicKey(signerAccount)

\* The signature the signer returns for a payload, as hex.
SignerSignature(account, payload) == [sig |-> [by |-> account, over |-> payload]]

\* The signer's owner selects another account (a wallet switching accounts).
SignerSwitchesAccount ==
  /\ switches < MaxAccountSwitches
  /\ switches' = switches + 1
  /\ signerAccount' = signerAccount + 1
  /\ UNCHANGED <<builder, lastSync, callVars>>

\* ----------------------------------------------------------------- encoder
\* TxEncoderFactory.createEncoder(entropy, chainID, msg, fee, feeDenom, memo)
createEncoder(entropy, chainID, msg, fee, feeDenom, memo) ==
  [ type |-> "encoder", entropy |-> entropy, chainID |-> chainID, msg |-> msg,
    fee |-> fee, feeDenom |-> feeDenom, memo |-> memo ]

\* What the encoder can answer for a message under the active scheme: it
\* takes it, or rejects it when created, or rejects it when rendering the
\* sign document.  Feature activation is not the builder's state, so a
\* governance upgrade can meet any of the three.
EncoderVerdicts(chainID, msg) ==
  IF msg.type = "MsgProtoGovUpgrade"
    THEN {"ok", "rejectedAtCreation", "rejectedAtRendering"}
    ELSE {"ok"}

UnsupportedMessageError == [name |-> "UnsupportedMessageError", message |-> ""]

\* encoder.marshalStdSignDoc(): the bytes of the canonical sign document.
marshalStdSignDoc(enc) ==
  BufferFromHex([ doc |-> "StdSignDoc", chain_id |-> enc.chainID,
                  entropy |-> enc.entropy,
                  fee |-> [amount |-> enc.fee, denom |-> enc.feeDenom],
                  memo |-> enc.memo, msg |-> enc.msg ])

\* encoder.marshalStdTx(signature): the bytes of the final transaction.
marshalStdTx(enc, signature) ==
  BufferFromHex([ doc |-> "StdTx", msg |-> enc.msg,
                  fee |-> [amount |-> enc.fee, denom |-> enc.feeDenom],
                  memo |-> enc.memo, entropy |-> enc.entropy,
                  signature |-> signature ])

\* new TxSignature(pubKey, signature)
TxSignature(pubKey, signature) == [pubKey |-> pubKey, signature |-> signature]

\* new RawTxRequest(address, txHex)
RawTxRequest(address, txHex) ==
  [type |-> "RawTxRequest", address |-> address, txHex |-> txHex]

\* ------------------------------------------------------ per-call bookkeeping
Update(c, p, f, r, events) ==
  /\ pc' = [pc EXCEPT ![c] = p]
  /\ frame' = [frame EXCEPT ![c] = f]
  /\ ret' = [ret EXCEPT ![c] = r]
  /\ trace' = [trace EXCEPT ![c] = @ \o events]

Called(c, o, a) ==
  /\ Constructed
  /\ op[c] = "idle"
  /\ op' = [op EXCEPT ![c] = o]
  /\ args' = [args EXCEPT ![c] = a]

\* ------------------------------------------------------- message factories
\* A message constructor rejects an amount that is not a positive number.
Exception(name) == [type |-> "exception", name |-> name]
ValidAmount(amount) == amount \notin {"0", "", "abc"}
Checked(amount, msg) == IF ValidAmount(amount) THEN msg ELSE Exception("InvalidAmountError")

MsgProtoSend(fromAddress, toAddress, amount) ==
  Checked(amount, [ type |-> "MsgProtoSend", fromAddress |-> fromAddress,
                    toAddress |-> toAddress, amount |-> amount ])

MsgProtoAppStake(pubKey, chains, amount) ==
  Checked(amount, [ type |-> "MsgProtoAppStake", pubKey |-> pubKey, chains |-> chains,
                    amount |-> amount ])

MsgProtoAppTransfer(pubKey) == [type |-> "MsgProtoAppTransfer", pubKey |-> pubKey]

MsgProtoAppUnstake(address) == [type |-> "MsgProtoAppUnstake", address |-> address]

MsgProtoNodeStakeTx(pubKey, outputAddress, chains, amount, serviceURL, rewardDelegators) ==
  Checked(amount, [ type |-> "MsgProtoNodeStakeTx", pubKey |-> pubKey,
                    outputAddress |-> outputAddress, chains |-> chains,
                    amount |-> amount, serviceURL |-> serviceURL,
                    rewardDelegators |-> rewardDelegators ])

MsgProtoNodeUnstake(nodeAddress, signerAddress) ==
  [ type |-> "MsgProtoNodeUnstake", nodeAddress |-> nodeAddress,
    signerAddress |-> signerAddress ]

MsgProtoNodeUnjail(nodeAddress, signerAddress) ==
  [ type |-> "MsgProtoNodeUnjail", nodeAddress |-> nodeAddress,
    signerAddress |-> signerAddress ]

MsgProtoGovDAOTransfer(fromAddress, toAddress, amount, action) ==
  Checked(amount, [ type |-> "MsgProtoGovDAOTransfer", fromAddress |-> fromAddress,
                    toAddress |-> toAddress, amount |-> amount, action |-> action ])

MsgProtoGovChangeParam(fromAddress, paramKey, paramValue, override) ==
  [ type |-> "MsgProtoGovChangeParam", fromAddress |-> fromAddress,
    paramKey |-> paramKey, paramValue |-> paramValue, override |-> override ]

MsgProtoGovUpgrade(fromAddress, upgrade) ==
  [ type |-> "MsgProtoGovUpgrade", fromAddress |-> fromAddress, upgrade |-> upgrade ]

OLD_UPGRADE_HEIGHT_EMPTY_VALUE == "OLD_UPGRADE_HEIGHT_EMPTY_VALUE"
FEATURE_UPGRADE_ONLY_HEIGHT == "FEATURE_UPGRADE_ONLY_HEIGHT"
FEATURE_UPGRADE_KEY == "FEATURE_UPGRADE_KEY"

\* The factories read the signer when an address (or key) is left out.
send(fromAddress, toAddress, amount) ==
  MsgProtoSend(Default(fromAddress, Str(SignerGetAddress)).value, toAddress, amount)

appStake(appPubKey, chains, amount) == MsgProtoAppStake(appPubKey, chains, amount)

appTransfer(appPubKey) == MsgProtoAppTransfer(appPubKey)

appUnstake(address) == MsgProtoAppUnstake(address)

nodeStake(nodePubKey, outputAddress, chains, amount, serviceURL, rewardDelegators) ==
  MsgProtoNodeStakeTx(Default(nodePubKey, Str(SignerGetPublicKey)).value,
                      Default(outputAddress, Str(SignerGetAddress)).value,
                      chains, amount, serviceURL, rewardDelegators)

nodeUnstake(nodeAddress, signerAddress) ==
  MsgProtoNodeUnstake(Default(nodeAddress, Str(SignerGetAddress)).value,
                      Default(signerAddress, Str(SignerGetAddress)).value)

nodeUnjail(nodeAddress, signerAddress) ==
  MsgProtoNodeUnjail(Default(nodeAddress, Str(SignerGetAddress)).value,
                     Default(signerAddress, Str(SignerGetAddress)).value)

govDAOTransfer(fromAddress, toAddress, amount, action) ==
  MsgProtoGovDAOTransfer(Default(fromAddress, Str(SignerGetAddress)).value,
                         Default(toAddress, Str("")).value, amount, action)

\* The sender address read from the signer once and kept.
govChangeParam_cached(fromAddress, paramKey, paramValue, override) ==
  MsgProtoGovChangeParam(Default(fromAddress, Str(AccountAddress(1))).value,
                         paramKey, paramValue, override)

govChangeParam(fromAddress, paramKey, paramValue, override) ==
  MsgProtoGovChangeParam(Default(fromAddress, Str(SignerGetAddress)).value,
                         paramKey, paramValue, override)

govUpgrade(fromAddress, upgrade) ==
  MsgProtoGovUpgrade(Default(fromAddress, Str(SignerGetAddress)).value,
                     [ height |-> upgrade.height, features |-> upgrade.features,
                       version |-> upgrade.version,
                       oldUpgradeHeight |-> OLD_UPGRADE_HEIGHT_EMPTY_VALUE ])

govUpgradeVersion(fromAddress, upgrade) ==
  govUpgrade(Str(Default(fromAddress, Str(SignerGetAddress)).value),
             [ features |-> <<>>, height |-> upgrade.height,
               version |-> upgrade.version ])

govUpgradeFeatures(fromAddress, upgrade) ==
  govUpgrade(Str(Default(fromAddress, Str(SignerGetAddress)).value),
             [ features |-> upgrade.features, height |-> FEATURE_UPGRADE_ONLY_HEIGHT,
               version |-> FEATURE_UPGRADE_KEY ])

\* The default initialisers of a factory's parameters, in the order of the
\* parameter list: the parameter and the signer method its default calls.
DefaultInitialisers(name) ==
  CASE name \in {"send", "govDAOTransfer", "govChangeParam", "govUpgrade",
                 "govUpgradeVersion", "govUpgradeFeatures"} ->
         << <<"fromAddress", "signer.getAddress">> >>
    [] name \in {"nodeUnstake", "nodeUnjail"} ->
         << <<"nodeAddress", "signer.getAddress">>,
            <<"signerAddress", "signer.getAddress">> >>
    [] name = "nodeStake" ->
         << <<"nodePubKey", "signer.getPublicKey">>,
            <<"outputAddress", "signer.getAddress">> >>
    [] OTHER -> <<>>

\* A default initialiser runs when, and only when, its argument is undefined:
\* the signer methods a factory call invokes, in order.
SignerReads(name, a) ==
  LET Omitted(d) == a[d[1]].type = "undefined"
      run == SelectSeq(DefaultInitialisers(name), Omitted)
  IN [i \in 1 .. Len(run) |-> run[i][2]]

\* The outcome of a factory call, with the arguments it was called with and
\* the signer methods it invoked.
FactoryOutcome(name, a, result) ==
  [ op |-> name,
    threw |-> IF result.type = "exception" THEN result.name ELSE "none",
    returned |-> IF result.type = "exception" THEN NoValue ELSE result,
    args |-> a,
    reads |-> SignerReads(name, a) ]

\* A factory that puts the builder back on the default chain.
CallFactory_resetsChain(name, a, result) ==
  /\ Constructed
  /\ lastSync' = FactoryOutcome(name, a, result)
  /\ builder' = [builder EXCEPT !.chainID = "mainnet"]
  /\ UNCHANGED <<signerVars, callVars>>

\* A factory is called with the arguments a: it returns its message, or
\* throws what the message constructor throws.
CallFactory(name, a, result) ==
  /\ Constructed
  /\ lastSync' = FactoryOutcome(name, a, result)
  /\ UNCHANGED <<builder, signerVars, callVars>>

\* Arguments of the factories: an address (a key) given or left out, an
\* amount the constructor takes or rejects.
AddressArgs == {Undefined, Str("addr7"), Str(AccountAddress(1))}
PublicKeyArgs == {Undefined, Str("pk7")}
AmountArgs == {"1000", "0"}

\* The arguments a caller passes to createTransaction and submit.  The message
\* is absent, or comes from a factory of the builder called for the purpose.
AnUpgrade == [height |-> 5, features |-> <<>>, version |-> "1.0.0"]
FeeArgs == {Undefined, Str("7"), BigIntOf(12)}
MemoArgs == {Undefined, Str("memo")}
TxMsgArgs == {Undefined, send(Undefined, "addr8", "1000"), govUpgrade(Undefined, AnUpgrade)}

\* -------------------------------------------- TransactionBuilder, async part
\* The check of line 109 left out.
txMsgMissing_unchecked(txMsg) == FALSE

\* Line 109: `if (!txMsg)`.
txMsgMissing(txMsg) == Falsy(txMsg)

MissingMessageError == [name |-> "Error", message |-> "txMsg should be defined."]

\* The await of line 128 left out: sign is called, and the method goes on
\* with the promise in place of the signature.
awaitSign_notAwaited(c, f, events) ==
  LET marshalledTx == TxSignature(BufferFromHex(SignerGetPublicKey),
                                  BufferFromHex("[object Promise]"))
      rawHexBytes == ToHex(marshalStdTx(f.signer, marshalledTx))
      tx == RawTxRequest(SignerGetAddress, rawHexBytes)
      g == [f EXCEPT !.marshalledTx = marshalledTx, !.rawHexBytes = rawHexBytes]
      all == events \o <<"signer.getPublicKey", "marshalStdTx", "signer.getAddress",
                         "createTransaction returns">>
  IN IF op'[c] = "submit"
       THEN Update(c, "created", [g EXCEPT !.tx = tx], Pending, all)
       ELSE Update(c, "returned", g, Fulfilled(tx), all)

\* Line 128: `await this.signer.sign(...)` suspends the call until the signer
\* settles the promise.
awaitSign(c, f, events) == Update(c, "awaitSign", f, Pending, events)

\* What marshalStdSignDoc throws is caught and the signer is asked all the same.
encodeAndSign_catches(c, verdict, f1, f2, f4) ==
  CASE verdict = "rejectedAtCreation" ->
         Update(c, "thrown", f1, Rejected(UnsupportedMessageError),
                <<"Math.random", "createEncoder", "createEncoder throws">>)
    [] verdict = "rejectedAtRendering" ->
         awaitSign(c, f4, <<"Math.random", "createEncoder", "marshalStdSignDoc",
                            "marshalStdSignDoc throws", "signer.sign">>)
    [] verdict = "ok" ->
         awaitSign(c, f4, <<"Math.random", "createEncoder", "marshalStdSignDoc",
                            "signer.sign">>)

\* Lines 117-128: the encoder is created, it renders the sign document, and
\* the signer is asked to sign; what the encoder throws leaves the method.
\* f1, f2 and f4 are the locals after lines 115, 124 and 128.
encodeAndSign(c, verdict, f1, f2, f4) ==
  CASE verdict = "rejectedAtCreation" ->
         Update(c, "thrown", f1, Rejected(UnsupportedMessageError),
                <<"Math.random", "createEncoder", "createEncoder throws">>)
    [] verdict = "rejectedAtRendering" ->
         Update(c, "thrown", f2, Rejected(UnsupportedMessageError),
                <<"Math.random", "createEncoder", "marshalStdSignDoc",
                  "marshalStdSignDoc throws">>)
    [] verdict = "ok" ->
         awaitSign(c, f4, <<"Math.random", "createEncoder", "marshalStdSignDoc",
                            "signer.sign">>)

\* createTransaction from its entry to `await this.signer.sign(...)`.
createTransactionBody(c, a) ==
  LET fee == Default(a.fee, DEFAULT_BASE_FEE)
      memo == Default(a.memo, Str(""))
      txMsg == a.txMsg
      feeString == IF fee.type = "bigint" THEN DecimalString(fee.value) ELSE fee.value
  IN
  IF txMsgMissing(txMsg)
    THEN Update(c, "thrown", frame[c], Rejected(MissingMessageError), <<>>)
    ELSE
      \E sample \in MathRandom, verdict \in EncoderVerdicts(builder.chainID, txMsg) :
        LET entropy == entropyOf(sample)
            signer == createEncoder(entropy, builder.chainID, txMsg, feeString,
                                    CoinDenomUpokt, memo.value)
            bytesToSign == marshalStdSignDoc(signer)
            f1 == [frame[c] EXCEPT !.entropy = entropy]
            f2 == [f1 EXCEPT !.signer = signer]
            f4 == [f2 EXCEPT !.bytesToSign = bytesToSign,
                             !.signRequest = ToHex(bytesToSign)]
        IN encodeAndSign(c, verdict, f1, f2, f4)

createTransaction(c, fee, memo, txMsg) ==
  /\ Called(c, "createTransaction", [fee |-> fee, memo |-> memo, txMsg |-> txMsg])
  /\ createTransactionBody(c, [fee |-> fee, memo |-> memo, txMsg |-> txMsg])
  /\ UNCHANGED <<builder, lastSync, signerVars>>

\* submit from its entry to the await inside the createTransaction it calls.
submit(c, fee, memo, txMsg) ==
  /\ Called(c, "submit", [fee |-> fee, memo |-> memo, txMsg |-> txMsg])
  /\ createTransactionBody(c, [ fee |-> Default(fee, DEFAULT_BASE_FEE),
                                memo |-> Default(memo, Str("")),
                                txMsg |-> txMsg ])
  /\ UNCHANGED <<builder, lastSync, signerVars>>

\* The signer settles the promise of sign: with a signature by the account it
\* holds, or with its own error.
SignerError == [name |-> "SignerError", message |-> "signer failed"]

SignerSettles(c) ==
  /\ pc[c] = "awaitSign"
  /\ \E outcome \in { Fulfilled(SignerSignature(signerAccount, frame[c].signRequest)),
                      Rejected(SignerError) } :
       Update(c, "signSettled", [frame[c] EXCEPT !.signSettled = outcome], Pending,
              <<"signer.sign settled">>)
  /\ UNCHANGED <<builder, lastSync, signerVars, op, args>>

\* The signature kept in a field the calls share: a call takes the signature
\* another call received, when there is one.
txSignatureOf_shared(c) ==
  LET others == {d \in CallIds \ {c} : frame[d].signSettled.state = "fulfilled"}
      from == IF others = {} THEN c ELSE CHOOSE d \in others : TRUE
  IN TxSignature(BufferFromHex(SignerGetPublicKey),
                 BufferFromHex(frame[from].signSettled.value))

\* Lines 130-133: the signature of the transaction, from the key the signer
\* reports and the signature the awaited sign returned to this call.
txSignatureOf(c) ==
  TxSignature(BufferFromHex(SignerGetPublicKey), BufferFromHex(frame[c].signSettled.value))

\* The address taken from the message's sender, not from the signer.
rawTxRequestOf_sender(c, rawHexBytes) == RawTxRequest(args[c].txMsg.fromAddress, rawHexBytes)

\* Line 137: the transaction request, under the address the signer reports.
rawTxRequestOf(c, rawHexBytes) == RawTxRequest(SignerGetAddress, rawHexBytes)

\* The signer's error caught and another one thrown in its place.
signRejected_wrapped(c) ==
  Update(c, "thrown", frame[c],
         Rejected([name |-> "Error", message |-> "could not sign the transaction"]), <<>>)

\* Line 128, when the promise of sign is rejected: the await throws what the
\* signer rejected with, and nothing catches it.
signRejected(c) ==
  Update(c, "thrown", frame[c], Rejected(frame[c].signSettled.value), <<>>)

\* The builds taken one at a time: a build goes on after its signature only
\* when no other call is waiting for the signer.
createTransactionAfterSign_serialized(c) ==
  /\ pc[c] = "signSettled"
  /\ \A d \in CallIds \ {c} : pc[d] # "awaitSign"
  /\ IF frame[c].signSettled.state = "rejected"
       THEN signRejected(c)
       ELSE
         LET marshalledTx == txSignatureOf(c)
             rawHexBytes == ToHex(marshalStdTx(frame[c].signer, marshalledTx))
             f == [frame[c] EXCEPT !.txBytes = frame[c].signSettled.value,
                                   !.marshalledTx = marshalledTx,
                                   !.rawHexBytes = rawHexBytes]
         IN Update(c, "returned", f, Fulfilled(rawTxRequestOf(c, rawHexBytes)),
                   <<"signer.getPublicKey", "marshalStdTx", "signer.getAddress",
                     "createTransaction returns">>)
  /\ UNCHANGED <<builder, lastSync, signerVars, op, args>>

\* The final bytes rendered by an encoder made anew, under the chain ID the
\* builder holds once sign has settled.
createTransactionAfterSign_rereadsChain(c) ==
  /\ pc[c] = "signSettled"
  /\ IF frame[c].signSettled.state = "rejected"
       THEN signRejected(c)
       ELSE
         LET txBytes == frame[c].signSettled.value
             marshalledTx == txSignatureOf(c)
             signer == [frame[c].signer EXCEPT !.chainID = builder.chainID]
             rawHexBytes == ToHex(marshalStdTx(signer, marshalledTx))
             tx == rawTxRequestOf(c, rawHexBytes)
             f == [frame[c] EXCEPT !.signer = signer,
                                   !.txBytes = txBytes,
                                   !.marshalledTx = marshalledTx,
                                   !.rawHexBytes = rawHexBytes]
             events == <<"signer.getPublicKey", "marshalStdTx", "signer.getAddress",
                         "createTransaction returns">>
         IN IF op[c] = "submit"
              THEN Update(c, "created", [f EXCEPT !.tx = tx], Pending, events)
              ELSE Update(c, "returned", f, Fulfilled(tx), events)
  /\ UNCHANGED <<builder, lastSync, signerVars, op, args>>

\* createTransaction from the settling of sign to its return (or throw).
createTransactionAfterSign(c) ==
  /\ pc[c] = "signSettled"
  /\ IF frame[c].signSettled.state = "rejected"
       THEN signRejected(c)
       ELSE
         LET txBytes == frame[c].signSettled.value
             marshalledTx == txSignatureOf(c)
             rawHexBytes == ToHex(marshalStdTx(frame[c].signer, marshalledTx))
             tx == rawTxRequestOf(c, rawHexBytes)
             f == [frame[c] EXCEPT !.txBytes = txBytes,
                                   !.marshalledTx = marshalledTx,
                                   !.rawHexBytes = rawHexBytes]
             events == <<"signer.getPublicKey", "marshalStdTx", "signer.getAddress",
                         "createTransaction returns">>
         IN IF op[c] = "submit"
              THEN Update(c, "created", [f EXCEPT !.tx = tx], Pending, events)
              ELSE Update(c, "returned", f, Fulfilled(tx), events)
  /\ UNCHANGED <<builder, lastSync, signerVars, op, args>>

\* ---------------------------------------------------------- JsonRpcProvider
\* The provider the builder is given: new JsonRpcProvider({rpcUrl,
\* dispatchers}).
ProviderRpcUrl == "https://node.example"
ProviderDispatchers == <<"https://dispatcher.example">>

\* finalRpcUrl of a perform call that is given no rpcUrl: a dispatch call
\* goes to the dispatcher drawn by Math.floor(Math.random() * 100), any
\* other call to the node.
finalRpcUrl(route, draw) ==
  IF route = "V1RpcRoutes.ClientDispatch"
    THEN ProviderDispatchers[(draw % Len(ProviderDispatchers)) + 1]
    ELSE ProviderRpcUrl

\* A perform call that has just been entered: its request goes out by fetch.
\* `stack` holds the retriesPerformed of the perform calls that wait, inside
\* their .catch handler, for the perform call they started.
performEnter(f, route, body, retryAttempts, stack, retriesPerformed) ==
  [f EXCEPT !.perform = [ route |-> route, body |-> body,
                          retryAttempts |-> retryAttempts,
                          stack |-> stack,
                          retriesPerformed |-> retriesPerformed ],
            !.request = [ url |-> finalRpcUrl(route, 0) \o route, method |-> "POST",
                          body |-> body ],
            !.fetchSettled = Pending]

\* RawTxRequest.toJSON()
RawTxRequestToJSON(tx) == [address |-> tx.address, raw_hex_bytes |-> tx.txHex]

\* perform called with a retry allowed.
sendTransactionEnter_retries(c, f, tx, events) ==
  Update(c, "awaitFetch",
         performEnter([f EXCEPT !.sent = tx], "V1RpcRoutes.ClientRawTx",
                      RawTxRequestToJSON(tx), 1, <<>>, 0),
         Pending,
         events \o <<"provider.sendTransaction", "fetch">>)

\* provider.sendTransaction(tx) from its entry to the await of fetch.
sendTransactionEnter(c, f, tx, events) ==
  Update(c, "awaitFetch",
         performEnter([f EXCEPT !.sent = tx], "V1RpcRoutes.ClientRawTx",
                      RawTxRequestToJSON(tx), 0, <<>>, 0),
         Pending,
         events \o <<"provider.sendTransaction", "fetch">>)

\* The request made anew for sending, under the address the signer reports
\* by then.
submitAfterCreate_remade(c) ==
  /\ pc[c] = "created"
  /\ sendTransactionEnter(c, frame[c],
                          RawTxRequest(SignerGetAddress, frame[c].tx.txHex), <<>>)
  /\ UNCHANGED <<builder, lastSync, signerVars, op, args>>

\* submit after its createTransaction returned: line 158.
submitAfterCreate(c) ==
  /\ pc[c] = "created"
  /\ sendTransactionEnter(c, frame[c], frame[c].tx, <<>>)
  /\ UNCHANGED <<builder, lastSync, signerVars, op, args>>

\* A RawTxRequest built elsewhere.
ForeignRawTx == RawTxRequest("addr9", "0a0b")
RawTxArgs ==
  {ForeignRawTx} \cup
  { ret[d].value : d \in { e \in CallIds : op[e] = "createTransaction"
                                           /\ ret[e].state = "fulfilled" } }

\* The request put under the signer's address before it is sent.
submitRawTransaction_readdressed(c, tx) ==
  /\ Called(c, "submitRawTransaction", [tx |-> tx])
  /\ sendTransactionEnter(c, [frame[c] EXCEPT !.tx = tx],
                          RawTxRequest(SignerGetAddress, tx.txHex),
                          <<"signer.getAddress">>)
  /\ UNCHANGED <<builder, lastSync, signerVars>>

\* submitRawTransaction from its entry to the await of fetch: line 169.
submitRawTransaction(c, tx) ==
  /\ Called(c, "submitRawTransaction", [tx |-> tx])
  /\ sendTransactionEnter(c, [frame[c] EXCEPT !.tx = tx], tx, <<>>)
  /\ UNCHANGED <<builder, lastSync, signerVars>>

\* The network settles the promise of fetch: with a response, or with an
\* error (a network failure, or the abort of the timeout).
HttpOutcomes ==
  { Fulfilled([ok |-> TRUE, body |-> "accepted"]),
    Fulfilled([ok |-> TRUE, body |-> "refused"]),
    Fulfilled([ok |-> FALSE, body |-> "refused"]),
    Fulfilled([ok |-> FALSE, body |-> "not json"]),
    Rejected([name |-> "TypeError", message |-> "fetch failed"]),
    Rejected([name |-> "AbortError", message |-> "The operation was aborted"]) }

FetchSettles(c) ==
  /\ pc[c] = "awaitFetch"
  /\ \E outcome \in HttpOutcomes :
       Update(c, "fetchSettled", [frame[c] EXCEPT !.fetchSettled = outcome], Pending,
              <<"fetch settled">>)
  /\ UNCHANGED <<builder, lastSync, signerVars, op, args>>

\* A perform call that never retries on a response.
performReturn_never(frames, response, retryAttempts) ==
  [retry |-> FALSE, stack |-> <<>>, retriesPerformed |-> frames[Len(frames)]]

RECURSIVE performReturn(_, _, _)
\* The response leaves the perform call on top of `frames` (lines 154-156):
\* that call retries, or hands the response to the call below it, which
\* received it as the value of its `await fetch(...).catch(...)`.
performReturn(frames, response, retryAttempts) ==
  LET retriesPerformed == frames[Len(frames)]
      below == SubSeq(frames, 1, Len(frames) - 1)
      shouldRetryOnFailure == retriesPerformed < retryAttempts
  IN IF ~response.ok /\ shouldRetryOnFailure
       THEN [retry |-> TRUE, stack |-> below, retriesPerformed |-> retriesPerformed + 1]
       ELSE IF below = <<>>
         THEN [retry |-> FALSE, stack |-> <<>>, retriesPerformed |-> retriesPerformed]
         ELSE performReturn(below, response, retryAttempts)

\* validateTransactionResponse(await res.json())
TransactionResponseOf(body) ==
  CASE body = "accepted" -> Fulfilled([type |-> "TransactionResponse", txHash |-> "E18E"])
    [] body = "refused" -> Rejected([name |-> "TransactionError", message |-> "refused"])
    [] OTHER -> Rejected([name |-> "SyntaxError", message |-> "Unexpected token"])

\* The session of a dispatch response, formatted (lines 680-722).
DispatchResponse ==
  [ type |-> "DispatchResponse", blockHeight |-> 7,
    session |-> [ blockHeight |-> 7, header |-> "header", key |-> "key",
                  nodes |-> <<"node">> ] ]

\* A catch clause that lets the error through.
CaughtAs_rethrown(err, failure) == Rejected(err)

\* The catch clause of dispatch and of relay (lines 723-729, 766-774).
CaughtAs(err, failure) ==
  IF err.name = "AbortError"
    THEN Rejected([name |-> "TimeoutError", message |-> "TimeoutError"])
    ELSE Rejected([name |-> failure, message |-> failure])

\* dispatch after its perform call settled: lines 675-729.  A body without
\* a session, like a body that is no JSON, ends in the catch clause.
dispatchSettled(settled) ==
  IF settled.state = "rejected"
    THEN CaughtAs(settled.value, "DispatchersFailureError")
    ELSE CASE settled.value.body = "accepted" -> Fulfilled(DispatchResponse)
           [] settled.value.body = "refused" ->
                CaughtAs([name |-> "Error", message |-> "RPC Error"],
                         "DispatchersFailureError")
           [] OTHER ->
                CaughtAs([name |-> "SyntaxError", message |-> "Unexpected token"],
                         "DispatchersFailureError")

\* relay after its perform call settled: lines 761-774.  The body is
\* returned as parsed, whatever it says.
relaySettled(settled) ==
  IF settled.state = "rejected"
    THEN CaughtAs(settled.value, "RelayFailureError")
    ELSE IF settled.value.body = "not json"
      THEN CaughtAs([name |-> "SyntaxError", message |-> "Unexpected token"],
                    "RelayFailureError")
      ELSE Fulfilled([type |-> "RelayResponse", body |-> settled.value.body])

\* The keys of the object a response body parses to: an "accepted" body is
\* what the route answers on success, a "refused" one an error object.
KeysOf(route, body) ==
  CASE body = "refused" -> {"code", "message"}
    [] body = "accepted" /\ route = "V1RpcRoutes.QueryApp" ->
         {"address", "chains", "max_relays", "public_key", "staked_tokens", "status"}
    [] body = "accepted" /\ route = "V1RpcRoutes.QueryNode" ->
         {"address", "chains", "public_key", "service_url", "tokens", "status"}
    [] body = "accepted" /\ route = "V1RpcRoutes.QueryApps" ->
         {"result", "total_pages", "page"}
    [] OTHER -> {}

SyntaxError == [name |-> "SyntaxError", message |-> "Unexpected token"]

\* getNodes and getApps after their perform call settled: lines 378-413 and
\* 494-529.  Neither has a catch clause.
listSettled(c, settled, item) ==
  IF settled.state = "rejected"
    THEN settled
    ELSE IF settled.value.body = "not json"
      THEN Rejected(SyntaxError)
      ELSE IF "result" \notin KeysOf(frame[c].perform.route, settled.value.body)
        THEN Rejected([name |-> "Error", message |-> "Failed to get apps"])
        ELSE Fulfilled([ type |-> "Paginable", data |-> <<item>>,
                         page |-> args[c].page, perPage |-> args[c].perPage ])

\* An account type decided by the node response first.
accountType_nodeFirst(node, app) ==
  IF "service_url" \in node
    THEN "node"
    ELSE IF "max_relays" \in app THEN "app" ELSE "account"

\* The account type of lines 215-223, from the keys of the two responses.
accountType(node, app) ==
  IF "service_url" \notin node /\ "max_relays" \in app
    THEN "app"
    ELSE IF "service_url" \in node /\ "max_relays" \notin app
      THEN "node"
      ELSE "account"

\* getType after its second perform call settled with nodeRes: lines
\* 212-223.  nodeRes.json() is awaited before appRes.json().
getTypeSettled(appRes, settled) ==
  IF settled.state = "rejected"
    THEN settled
    ELSE IF settled.value.body = "not json" \/ appRes.body = "not json"
      THEN Rejected(SyntaxError)
      ELSE Fulfilled(accountType(KeysOf("V1RpcRoutes.QueryNode", settled.value.body),
                                 KeysOf("V1RpcRoutes.QueryApp", appRes.body)))

\* The method that awaits perform goes on with what perform settled to.
performSettled(c, f, settled, events) ==
  CASE op[c] \in {"getNodes", "getApps"} ->
         LET result == listSettled(c, settled, IF op[c] = "getNodes" THEN "node" ELSE "app")
         IN Update(c, IF result.state = "rejected" THEN "thrown" ELSE "returned",
                   [f EXCEPT !.performed = settled], result,
                   events \o <<"provider." \o op[c] \o " settled">>)
    [] op[c] = "getType" /\ f.perform.route = "V1RpcRoutes.QueryApp" ->
         IF settled.state = "rejected"
           THEN Update(c, "thrown", [f EXCEPT !.performed = settled], settled,
                       events \o <<"provider.getType settled">>)
           ELSE Update(c, "awaitFetch",
                       performEnter([f EXCEPT !.performed = settled,
                                              !.appRes = settled.value],
                                    "V1RpcRoutes.QueryNode",
                                    [address |-> args[c].address], 0, <<>>, 0),
                       Pending, events \o <<"fetch">>)
    [] op[c] = "getType" /\ f.perform.route = "V1RpcRoutes.QueryNode" ->
         LET result == getTypeSettled(f.appRes, settled)
         IN Update(c, IF result.state = "rejected" THEN "thrown" ELSE "returned",
                   [f EXCEPT !.performed = settled], result,
                   events \o <<"provider.getType settled">>)
    [] op[c] = "dispatch" ->
         LET result == dispatchSettled(settled)
         IN Update(c, IF result.state = "rejected" THEN "thrown" ELSE "returned",
                   [f EXCEPT !.performed = settled], result,
                   events \o <<"provider.dispatch settled">>)
    [] op[c] = "relay" ->
         LET result == relaySettled(settled)
         IN Update(c, IF result.state = "rejected" THEN "thrown" ELSE "returned",
                   [f EXCEPT !.performed = settled], result,
                   events \o <<"provider.relay settled">>)
    [] OTHER ->
         LET result == IF settled.state = "rejected"
                         THEN settled
                         ELSE TransactionResponseOf(settled.value.body)
         IN Update(c, IF result.state = "rejected" THEN "thrown" ELSE "returned",
                   [f EXCEPT !.performed = settled, !.sendResult = result], result,
                   events \o <<"provider.sendTransaction settled">>)

\* perform from the settling of fetch to its next fetch, return or throw.
performAfterFetch(c) ==
  /\ pc[c] = "fetchSettled"
  /\ LET p == frame[c].perform
         settled == frame[c].fetchSettled
         shouldRetryOnFailure == p.retriesPerformed < p.retryAttempts
     IN IF settled.state = "rejected"
          THEN IF shouldRetryOnFailure
                 THEN Update(c, "awaitFetch",
                             performEnter(frame[c], p.route, p.body, p.retryAttempts,
                                          Append(p.stack, p.retriesPerformed),
                                          p.retriesPerformed + 1),
                             Pending, <<"fetch">>)
                 ELSE performSettled(c, frame[c], settled, <<>>)
          ELSE LET next == performReturn(Append(p.stack, p.retriesPerformed),
                                         settled.value, p.retryAttempts)
               IN IF next.retry
                    THEN Update(c, "awaitFetch",
                                performEnter(frame[c], p.route, p.body, p.retryAttempts,
                                             next.stack, next.retriesPerformed),
                                Pending, <<"fetch">>)
                    ELSE performSettled(c, frame[c], settled, <<>>)
  /\ UNCHANGED <<builder, lastSync, signerVars, op, args>>

\* A method of the provider called on its own, the builder not involved.
ProviderCalled(c, o, a) ==
  /\ op[c] = "idle"
  /\ op' = [op EXCEPT ![c] = o]
  /\ args' = [args EXCEPT ![c] = a]
  /\ UNCHANGED <<builder, lastSync, signerVars>>

\* The request of a dispatch call.
DispatchRequest ==
  [ sessionHeader |-> [ applicationPubKey |-> "a1b2", chain |-> "0021",
                        sessionBlockHeight |-> 1 ] ]

\* dispatch from its entry to the await of fetch: lines 649-673.  The
\* options are spread into the argument of perform, whose default applies
\* to a retryAttempts left undefined.
\* `dispatchers` is this.dispatchers of the provider the call is made on.
dispatch(c, dispatchers, request, retryAttempts) ==
  /\ ProviderCalled(c, "dispatch", [ dispatchers |-> dispatchers, request |-> request,
                                     retryAttempts |-> retryAttempts ])
  /\ IF Len(dispatchers) = 0
       THEN Update(c, "thrown", frame[c],
                   Rejected([ name |-> "Error",
                              message |-> "You need to have dispatchers to perform a dispatch call" ]),
                   <<"provider.dispatch">>)
       ELSE Update(c, "awaitFetch",
                   performEnter(frame[c], "V1RpcRoutes.ClientDispatch",
                                [ app_public_key |-> request.sessionHeader.applicationPubKey,
                                  chain |-> request.sessionHeader.chain,
                                  session_height |-> request.sessionHeader.sessionBlockHeight ],
                                Default(retryAttempts, Num(0)).value, <<>>, 0),
                   Pending, <<"provider.dispatch", "fetch">>)

\* relay from its entry to the await of fetch: lines 742-759, called
\* without an rpcUrl.
relay(c, request, retryAttempts) ==
  /\ ProviderCalled(c, "relay", [request |-> request, retryAttempts |-> retryAttempts])
  /\ Update(c, "awaitFetch",
            performEnter(frame[c], "V1RpcRoutes.ClientRelay", request,
                         Default(retryAttempts, Num(0)).value, <<>>, 0),
            Pending, <<"provider.relay", "fetch">>)

\* `a ?? d`
Nullish(v, d) == IF v.type \in {"undefined", "null"} THEN d ELSE v

\* The body of a listing query: lines 361-376 and 480-492, for options
\* without a blockchain, a staking status or a jailed status.
listBody(options) ==
  [ height |-> options.blockHeight,
    opts |-> [ page |-> Nullish(options.page, Num(1)),
               per_page |-> Nullish(options.perPage, Num(100)) ] ]

DefaultListOptions == [blockHeight |-> Num(0), page |-> Num(1), perPage |-> Num(100)]

\* getNodes from its entry to the await of fetch: lines 350-376.
getNodes(c, GetNodesOptions) ==
  /\ ProviderCalled(c, "getNodes", GetNodesOptions)
  /\ Update(c, "awaitFetch",
            performEnter(frame[c], "V1RpcRoutes.QueryApps", listBody(GetNodesOptions),
                         0, <<>>, 0),
            Pending, <<"provider.getNodes", "fetch">>)

\* getApps from its entry to the await of fetch: lines 469-492.
getApps(c, GetAppsOptions) ==
  /\ ProviderCalled(c, "getApps", GetAppsOptions)
  /\ Update(c, "awaitFetch",
            performEnter(frame[c], "V1RpcRoutes.QueryApps", listBody(GetAppsOptions),
                         0, <<>>, 0),
            Pending, <<"provider.getApps", "fetch">>)

\* getType from its entry to the await of the fetch of its first perform
\* call: lines 201-207.
getType(c, address) ==
  /\ ProviderCalled(c, "getType", [address |-> address])
  /\ Update(c, "awaitFetch",
            performEnter(frame[c], "V1RpcRoutes.QueryApp", [address |-> address],
                         0, <<>>, 0),
            Pending, <<"provider.getType", "fetch">>)

ListOptionsArgs ==
  { DefaultListOptions,
    [blockHeight |-> Num(5), page |-> Undefined, perPage |-> Num(10)] }

RetryAttemptsArgs == {Undefined} \cup { Num(n) : n \in 0 .. MaxRetryAttempts }
RelayRequest == [payload |-> "data", proof |-> "proof"]

\* ------------------------------------------------------------------ utils
\* A synchronous utility function called with an argument: what it returned
\* or threw.
Ok(v) == [returned |-> v, threw |-> "none"]
Fail(e) == [returned |-> NoValue, threw |-> e]

CallUtility(name, argument, outcome) ==
  /\ lastSync' = [ args |-> argument, op |-> name,
                   returned |-> outcome.returned, threw |-> outcome.threw ]
  /\ UNCHANGED <<builder, signerVars, callVars>>

\* JSON values, each a pair of its type and its content.  A string is the
\* sequence of its characters; an object is the sequence of its members
\* <<key, value>> in the order of its keys (Object.keys), the keys distinct.
JNum(n) == <<"num", n>>
JStr(chars) == <<"str", chars>>
JArr(items) == <<"arr", items>>
JObj(members) == <<"obj", members>>

\* The code unit of a character.
CharCode(ch) ==
  CASE ch = "0" -> 48 [] ch = "1" -> 49 [] ch = "2" -> 50 [] ch = "3" -> 51
    [] ch = "9" -> 57 [] ch = "a" -> 97 [] ch = "b" -> 98 [] ch = "c" -> 99
    [] ch = "x" -> 120 [] ch = "y" -> 121 [] ch = "z" -> 122

RECURSIVE KeyLess(_, _)
\* Lexicographic order of two keys by their code units.
KeyLess(a, b) ==
  IF a = <<>> THEN b # <<>>
  ELSE IF b = <<>> THEN FALSE
  ELSE IF CharCode(Head(a)) # CharCode(Head(b))
    THEN CharCode(Head(a)) < CharCode(Head(b))
    ELSE KeyLess(Tail(a), Tail(b))

RECURSIVE InsertMember(_, _)
InsertMember(sorted, m) ==
  IF sorted = <<>> THEN <<m>>
  ELSE IF KeyLess(m[1], Head(sorted)[1]) THEN <<m>> \o sorted
  ELSE <<Head(sorted)>> \o InsertMember(Tail(sorted), m)

\* The members in the order they are in, unsorted.
SortMembers_asInserted(members) == members

RECURSIVE SortMembers(_)
\* The members of an object by ascending key.
SortMembers(members) ==
  IF members = <<>> THEN <<>>
  ELSE InsertMember(SortMembers(SubSeq(members, 1, Len(members) - 1)),
                    members[Len(members)])

\* The lexemes of a JSON text: a punctuation mark, or a number or a string
\* with its content.
Tok(p) == <<p>>
NumTok(n) == <<"num", n>>
StrTok(chars) == <<"str", chars>>

RECURSIVE Render(_), RenderItems(_), RenderMembers(_)
\* The JSON text of a value, as the sequence of its lexemes: the members of
\* every object by ascending key, the elements of every array as they are.
Render(value) ==
  CASE value[1] = "num" -> <<NumTok(value[2])>>
    [] value[1] = "str" -> <<StrTok(value[2])>>
    [] value[1] = "arr" -> <<Tok("[")>> \o RenderItems(value[2]) \o <<Tok("]")>>
    [] value[1] = "obj" ->
         <<Tok("{")>> \o RenderMembers(SortMembers(value[2])) \o <<Tok("}")>>

RenderItems(items) ==
  IF items = <<>> THEN <<>>
  ELSE Render(Head(items))
         \o (IF Tail(items) = <<>> THEN <<>> ELSE <<Tok(",")>> \o RenderItems(Tail(items)))

RenderMembers(members) ==
  IF members = <<>> THEN <<>>
  ELSE <<StrTok(Head(members)[1]), Tok(":")>> \o Render(Head(members)[2])
         \o (IF Tail(members) = <<>> THEN <<>>
             ELSE <<Tok(",")>> \o RenderMembers(Tail(members)))

\* stringifyObjectWithSort(obj)
stringifyObjectWithSort(obj) == Ok(Render(obj))

RECURSIVE ParseValue(_, _), ParseItems(_, _, _), ParseMembers(_, _, _)
\* JSON.parse: the index of the lexeme after the value that starts at
\* lexeme i, and that value.
ParseValue(toks, i) ==
  CASE toks[i][1] = "num" -> <<i + 1, JNum(toks[i][2])>>
    [] toks[i][1] = "str" -> <<i + 1, JStr(toks[i][2])>>
    [] toks[i][1] = "[" ->
         IF toks[i + 1][1] = "]" THEN <<i + 2, JArr(<<>>)>>
                                ELSE ParseItems(toks, i + 1, <<>>)
    [] toks[i][1] = "{" ->
         IF toks[i + 1][1] = "}" THEN <<i + 2, JObj(<<>>)>>
                                ELSE ParseMembers(toks, i + 1, <<>>)

ParseItems(toks, i, acc) ==
  LET item == ParseValue(toks, i)
      items == Append(acc, item[2])
  IN IF toks[item[1]][1] = ","
       THEN ParseItems(toks, item[1] + 1, items)
       ELSE <<item[1] + 1, JArr(items)>>

ParseMembers(toks, i, acc) ==
  LET member == ParseValue(toks, i + 2)
      members == Append(acc, <<toks[i][2], member[2]>>)
  IN IF toks[member[1]][1] = ","
       THEN ParseMembers(toks, member[1] + 1, members)
       ELSE <<member[1] + 1, JObj(members)>>

JSONParse(toks) == ParseValue(toks, 1)[2]

RECURSIVE Join(_)
Join(chars) == IF chars = <<>> THEN "" ELSE Head(chars) \o Join(Tail(chars))

RECURSIVE Text(_)
\* The text the lexemes make.
Text(toks) ==
  IF toks = <<>> THEN ""
  ELSE (CASE Head(toks)[1] = "num" -> DecimalString(Head(toks)[2])
          [] Head(toks)[1] = "str" -> "\"" \o Join(Head(toks)[2]) \o "\""
          [] OTHER -> Head(toks)[1]) \o Text(Tail(toks))

\* A hex string is the sequence of the values of its digits; a buffer is the
\* sequence of its bytes.
HexToBytes(h) == [i \in 1 .. (Len(h) \div 2) |-> 16 * h[2 * i - 1] + h[2 * i]]
BytesToHex(b) ==
  [j \in 1 .. (2 * Len(b)) |-> IF j % 2 = 1 THEN b[(j + 1) \div 2] \div 16
                                             ELSE b[j \div 2] % 16]

\* The length of the private key material, in bytes.
PRIVATE_KEY_BYTES == 64

\* The first half of the key material returned: the seed, not the public key.
publicKeyFromPrivate_seed(privateKey) ==
  IF Len(privateKey) # 2 * PRIVATE_KEY_BYTES
    THEN Fail("InvalidKeyLengthError")
    ELSE Ok(BytesToHex(SubSeq(HexToBytes(privateKey), 1, PRIVATE_KEY_BYTES \div 2)))

\* publicKeyFromPrivate(privateKey): the second half of the 64 bytes.
publicKeyFromPrivate(privateKey) ==
  IF Len(privateKey) # 2 * PRIVATE_KEY_BYTES
    THEN Fail("InvalidKeyLengthError")
    ELSE Ok(BytesToHex(SubSeq(HexToBytes(privateKey), PRIVATE_KEY_BYTES \div 2 + 1,
                              PRIVATE_KEY_BYTES)))

\* The key pair of the test.
PRIVATE_KEY ==
  << 1, 15, 8, 12, 11, 13, 14, 3, 0, 14, 15, 5, 10, 9, 13, 11, 0, 10, 5, 10, 9, 13, 5, 14, 11, 4, 0, 5, 3, 6, 15, 12,
     9, 13, 14, 15, 12, 3, 1, 8, 11, 8, 5, 8, 1, 13, 5, 4, 3, 8, 0, 8, 11, 7, 5, 0, 4, 14, 0, 9, 0, 2, 11, 12,
     11, 2, 4, 3, 11, 2, 7, 11, 12, 9, 15, 11, 14, 5, 5, 8, 0, 4, 5, 7, 10, 4, 6, 3, 7, 0, 10, 14, 5, 15, 0, 3,
     10, 6, 15, 6, 7, 5, 3, 6, 3, 3, 14, 5, 1, 14, 15, 13, 10, 15, 2, 12, 15, 5, 3, 4, 15, 13, 12, 2, 6, 12, 12, 3 >>
PUBLIC_KEY ==
  << 11, 2, 4, 3, 11, 2, 7, 11, 12, 9, 15, 11, 14, 5, 5, 8, 0, 4, 5, 7, 10, 4, 6, 3, 7, 0, 10, 14, 5, 15, 0, 3,
     10, 6, 15, 6, 7, 5, 3, 6, 3, 3, 14, 5, 1, 14, 15, 13, 10, 15, 2, 12, 15, 5, 3, 4, 15, 13, 12, 2, 6, 12, 12, 3 >>

\* Key material made by a rule, of a length given in hex digits.
MaxKeyPattern == 3
PatternKey(a, b, len) == [i \in 1 .. len |-> (a * i + b * ((i - 1) \div 32)) % 16]
PrivateKeyArgs ==
  {PRIVATE_KEY}
    \cup {PatternKey(a, b, 2 * PRIVATE_KEY_BYTES) : a, b \in 0 .. MaxKeyPattern}
    \cup {PatternKey(1, 1, len) : len \in {PRIVATE_KEY_BYTES, 2 * PRIVATE_KEY_BYTES - 2,
                                          2 * PRIVATE_KEY_BYTES + 2}}

\* The values stringifyObjectWithSort is called with: objects of two members
\* in both orders, objects and arrays of objects inside objects, and the
\* value of the test, as written and with its members in another order.
StringifyKeys == {<<"a">>, <<"a", "b">>, <<"1", "0">>, <<"9">>}
Leaves == {JNum(1), JStr(<<"3">>), JArr(<<JNum(3), JNum(2), JNum(1)>>)}
TwoMembers(keys, values) ==
  { JObj(<< <<k[1], v[1]>>, <<k[2], v[2]>> >>) :
      k \in {q \in keys \X keys : q[1] # q[2]}, v \in values \X values }
InnerXZ == JObj(<< <<(<<"x">>), JStr(<<"1">>)>>, <<(<<"z">>), JStr(<<"3">>)>> >>)
InnerZX == JObj(<< <<(<<"z">>), JStr(<<"3">>)>>, <<(<<"x">>), JStr(<<"1">>)>> >>)
Inner == {InnerXZ, InnerZX, JArr(<<InnerZX, InnerXZ>>), JArr(<<InnerXZ, InnerZX>>)}
TestValue ==
  JObj(<< <<(<<"a", "b", "c">>), JArr(<<JNum(3), JNum(2), JNum(1)>>)>>,
          <<(<<"a", "b">>),
            JObj(<< <<(<<"y">>), JObj(<< <<(<<"1">>), JNum(1)>>, <<(<<"3">>), JNum(3)>>,
                                        <<(<<"2">>), JNum(2)>> >>)>>,
                    <<(<<"z">>), JStr(<<"3">>)>>,
                    <<(<<"x">>), JStr(<<"1">>)>> >>)>>,
          <<(<<"a">>), JNum(1)>> >>)
TestValuePermuted ==
  JObj(<< <<(<<"a">>), JNum(1)>>,
          <<(<<"a", "b", "c">>), JArr(<<JNum(3), JNum(2), JNum(1)>>)>>,
          <<(<<"a", "b">>),
            JObj(<< <<(<<"x">>), JStr(<<"1">>)>>,
                    <<(<<"y">>), JObj(<< <<(<<"2">>), JNum(2)>>, <<(<<"3">>), JNum(3)>>,
                                        <<(<<"1">>), JNum(1)>> >>)>>,
                    <<(<<"z">>), JStr(<<"3">>)>> >>)>> >>)
StringifyArgs ==
  TwoMembers(StringifyKeys, Leaves)
    \cup TwoMembers({<<"a">>, <<"a", "b">>}, Inner)
    \cup {TestValue, TestValuePermuted}

\* -------------------------------------------------------------------- Next
\* What the environment does for the calls in C.
Environment(C) ==
  \/ \E c \in C : SignerSettles(c)
  \/ \E c \in C : FetchSettles(c)

\* The continuations of the calls in C.
Continuations(C) ==
  \/ \E c \in C : createTransactionAfterSign(c)
  \/ \E c \in C : submitAfterCreate(c)
  \/ \E c \in C : performAfterFetch(c)

\* The arguments of the constructor and of setChainID: a collaborator given
\* or absent, a chain ID of the enumeration or not.
ProviderArgs == {Undefined, Null, TheProvider}
SignerArgs == {Undefined, Null, TheSigner}
ChainIDArgs == {Undefined, Str("localnet"), Str("othernet")}
SetChainIDArgs == ChainIDs \cup {"othernet", ""}

\* One call in flight; every argument of the constructor, of setChainID and
\* of the three asynchronous methods.
Next ==
  \/ \E provider \in ProviderArgs, signer \in SignerArgs, chainID \in ChainIDArgs :
       Constructor(provider, signer, chainID)
  \/ \E id \in SetChainIDArgs : setChainID(id)
  \/ SignerSwitchesAccount
  \/ \E fee \in FeeArgs, memo \in MemoArgs, txMsg \in TxMsgArgs :
       createTransaction("c1", fee, memo, txMsg)
  \/ \E fee \in FeeArgs, memo \in MemoArgs, txMsg \in TxMsgArgs :
       submit("c1", fee, memo, txMsg)
  \/ \E tx \in RawTxArgs : submitRawTransaction("c1", tx)
  \/ Environment({"c1"})
  \/ Continuations({"c1"})

Spec == Init /\ [][Next]_vars

\* Two calls in flight on one builder.
NextConcurrent ==
  \/ Constructor(TheProvider, TheSigner, Undefined)
  \/ SignerSwitchesAccount
  \/ \E c \in CallIds, fee \in {Undefined, BigIntOf(12)} :
       createTransaction(c, fee, Undefined, send(Undefined, "addr8", "1000"))
  \/ \E c \in CallIds :
       submit(c, Undefined, Str("memo"), send(Undefined, "addr8", "1000"))
  \/ \E c \in CallIds, tx \in RawTxArgs : submitRawTransaction(c, tx)
  \/ Environment(CallIds)
  \/ Continuations(CallIds)

SpecConcurrent == Init /\ [][NextConcurrent]_vars

\* The thirteen factories.
Factories ==
  \/ \E fromAddress \in AddressArgs, amount \in AmountArgs :
       CallFactory("send",
                   [fromAddress |-> fromAddress, toAddress |-> Str("addr8"),
                    amount |-> Str(amount)],
                   send(fromAddress, "addr8", amount))
  \/ \E amount \in AmountArgs :
       CallFactory("appStake", [amount |-> Str(amount)],
                   appStake("pk8", <<"0001">>, amount))
  \/ CallFactory("appTransfer", [appPubKey |-> Str("pk8")], appTransfer("pk8"))
  \/ CallFactory("appUnstake", [address |-> Str("addr8")], appUnstake("addr8"))
  \/ \E nodePubKey \in PublicKeyArgs, outputAddress \in AddressArgs :
       CallFactory("nodeStake",
                   [nodePubKey |-> nodePubKey, outputAddress |-> outputAddress],
                   nodeStake(nodePubKey, outputAddress, <<"0001">>, "1000",
                             "https://node.example:443", Undefined))
  \/ \E nodeAddress \in AddressArgs, signerAddress \in AddressArgs :
       CallFactory("nodeUnstake",
                   [nodeAddress |-> nodeAddress, signerAddress |-> signerAddress],
                   nodeUnstake(nodeAddress, signerAddress))
  \/ \E nodeAddress \in AddressArgs, signerAddress \in AddressArgs :
       CallFactory("nodeUnjail",
                   [nodeAddress |-> nodeAddress, signerAddress |-> signerAddress],
                   nodeUnjail(nodeAddress, signerAddress))
  \/ \E fromAddress \in AddressArgs, toAddress \in {Undefined, Str("addr8")} :
       CallFactory("govDAOTransfer",
                   [fromAddress |-> fromAddress, toAddress |-> toAddress],
                   govDAOTransfer(fromAddress, toAddress, "1000", "dao_transfer"))
  \/ \E fromAddress \in AddressArgs :
       CallFactory("govChangeParam", [fromAddress |-> fromAddress],
                   govChangeParam(fromAddress, "pos/StakeMinimum", "15000", Undefined))
  \/ \E fromAddress \in AddressArgs :
       CallFactory("govUpgrade", [fromAddress |-> fromAddress],
                   govUpgrade(fromAddress, AnUpgrade))
  \/ \E fromAddress \in AddressArgs :
       CallFactory("govUpgradeVersion", [fromAddress |-> fromAddress],
                   govUpgradeVersion(fromAddress, [height |-> 5, version |-> "1.0.0"]))
  \/ \E fromAddress \in AddressArgs :
       CallFactory("govUpgradeFeatures", [fromAddress |-> fromAddress],
                   govUpgradeFeatures(fromAddress, [features |-> <<"RSCAL:5">>]))

\* The builder's whole interface, one call in flight.
NextFactories ==
  \/ \E chainID \in {Undefined, Str("testnet")} :
       Constructor(TheProvider, TheSigner, chainID)
  \/ \E id \in {"localnet", "othernet"} : setChainID(id)
  \/ Factories
  \/ \E txMsg \in {Undefined, send(Undefined, "addr8", "1000")} :
       createTransaction("c1", Undefined, Undefined, txMsg)
  \/ submit("c1", BigIntOf(12), Str("memo"), govUpgrade(Undefined, AnUpgrade))
  \/ submitRawTransaction("c1", ForeignRawTx)
  \/ Environment({"c1"})
  \/ Continuations({"c1"})

SpecFactories == Init /\ [][NextFactories]_vars

\* The factories and a signer that changes its account between their calls.
NextDefaults ==
  \/ Constructor(TheProvider, TheSigner, Undefined)
  \/ SignerSwitchesAccount
  \/ Factories

SpecDefaults == Init /\ [][NextDefaults]_vars

\* The utility functions, called with the arguments above.
NextUtils ==
  \/ \E obj \in StringifyArgs :
       CallUtility("stringifyObjectWithSort", obj, stringifyObjectWithSort(obj))
  \/ \E privateKey \in PrivateKeyArgs :
       CallUtility("publicKeyFromPrivate", privateKey, publicKeyFromPrivate(privateKey))

SpecUtils == Init /\ [][NextUtils]_vars

\* Two createTransaction calls in flight and a signer that may never answer.
\* The event loop runs the continuation of an await once its promise has
\* settled, whatever else is pending: weak fairness of the continuation.
\* Nothing obliges the signer to settle a promise.
NextStuckSigner ==
  \/ Constructor(TheProvider, TheSigner, Undefined)
  \/ SignerSwitchesAccount
  \/ \E c \in CallIds, fee \in {Undefined, BigIntOf(12)} :
       createTransaction(c, fee, Undefined, send(Undefined, "addr8", "1000"))
  \/ \E c \in CallIds : SignerSettles(c)
  \/ \E c \in CallIds : createTransactionAfterSign(c)

SpecStuckSigner ==
  /\ Init
  /\ [][NextStuckSigner]_vars
  /\ \A c \in CallIds : WF_vars(createTransactionAfterSign(c))

\* The provider used on its own: dispatch and relay calls with the retries
\* their caller allows, and a network that answers each request as it
\* likes.
NextProvider ==
  \/ \E c \in CallIds, dispatchers \in {<<>>, ProviderDispatchers},
        retryAttempts \in RetryAttemptsArgs :
       dispatch(c, dispatchers, DispatchRequest, retryAttempts)
  \/ \E c \in CallIds, retryAttempts \in RetryAttemptsArgs :
       relay(c, RelayRequest, retryAttempts)
  \/ \E c \in CallIds : FetchSettles(c)
  \/ \E c \in CallIds : performAfterFetch(c)

SpecProvider == Init /\ [][NextProvider]_vars

\* The queries of the provider: the two listings and getType.
NextQueries ==
  \/ \E c \in CallIds, options \in ListOptionsArgs : getNodes(c, options)
  \/ \E c \in CallIds, options \in ListOptionsArgs : getApps(c, options)
  \/ \E c \in CallIds, address \in {"addr1", "addr7"} : getType(c, address)
  \/ \E c \in CallIds : FetchSettles(c)
  \/ \E c \in CallIds : performAfterFetch(c)

SpecQueries == Init /\ [][NextQueries]_vars

\* The provider with a network that settles every fetch, and an event loop
\* that runs the continuation of every settled promise.
SpecProviderSettling ==
  /\ Init
  /\ [][NextProvider]_vars
  /\ \A c \in CallIds : WF_vars(FetchSettles(c)) /\ WF_vars(performAfterFetch(c))

\* ================================================================== claims
Has(tr, e) == \E i \in 1 .. Len(tr) : tr[i] = e
Count(tr, e) == Cardinality({i \in 1 .. Len(tr) : tr[i] = e})
First(tr, e) == CHOOSE i \in 1 .. Len(tr) : tr[i] = e /\ \A j \in 1 .. (i - 1) : tr[j] # e
\* Every e of the trace comes after the first a.
Before(tr, a, e) == Has(tr, a) /\ \A i \in 1 .. Len(tr) : tr[i] = e => First(tr, a) < i

Builds(c) == op[c] \in {"createTransaction", "submit"}
\* The RawTxRequest a build has produced, if any.
BuiltTx(c) == IF op[c] = "submit" THEN frame[c].tx ELSE ret[c].value
HasBuiltTx(c) ==
  /\ Builds(c)
  /\ \/ op[c] = "submit" /\ frame[c].tx # NoValue
     \/ op[c] = "createTransaction" /\ ret[c].state = "fulfilled"

\* The encoder of a build, from the arguments the caller gave, the entropy
\* drawn and the chain ID read.
FeeStringOf(fee) ==
  IF fee.type = "undefined" THEN "10000"
  ELSE IF fee.type = "bigint" THEN DecimalString(fee.value) ELSE fee.value
MemoOf(memo) == IF memo.type = "undefined" THEN "" ELSE memo.value
EncoderOfCall(c) ==
  createEncoder(frame[c].entropy, frame[c].signer.chainID, args[c].txMsg,
                FeeStringOf(args[c].fee), "upokt", MemoOf(args[c].memo))

\* C1: within one build the steps follow one another: the sign bytes exist
\* before sign is called and are what it is called with, the final bytes are
\* assembled only after the signer returned a signature, and the
\* RawTransaction is returned only after the final bytes exist; no state holds
\* final bytes or a result of a build whose signature has not been returned.
C1_StepsSequential ==
  \A c \in CallIds : Builds(c) =>
    LET tr == trace[c] IN
    /\ Has(tr, "signer.sign") =>
         /\ Before(tr, "marshalStdSignDoc", "signer.sign")
         /\ frame[c].bytesToSign # NoValue
         /\ frame[c].signRequest = ToHex(frame[c].bytesToSign)
    /\ Has(tr, "marshalStdTx") =>
         /\ Before(tr, "signer.sign", "signer.sign settled")
         /\ Before(tr, "signer.sign settled", "marshalStdTx")
    /\ Has(tr, "createTransaction returns") =>
         Before(tr, "marshalStdTx", "createTransaction returns")
    /\ (frame[c].rawHexBytes # NoValue \/ HasBuiltTx(c)) =>
         /\ frame[c].signSettled.state = "fulfilled"
         /\ frame[c].rawHexBytes # NoValue
         /\ Has(tr, "marshalStdTx")
    /\ HasBuiltTx(c) => /\ Has(tr, "createTransaction returns")
                        /\ BuiltTx(c).txHex = frame[c].rawHexBytes

C1_Witness ==
  /\ op["c1"] = "createTransaction"
  /\ ret["c1"].state = "fulfilled"
  /\ frame["c1"].signSettled.state = "fulfilled"

\* C2: the RawTransaction a build returns carries the address the signer
\* reports when it is returned, whatever the message, fee and memo.
C2_OriginatingAddress ==
  [][ \A c \in CallIds :
        (Builds(c) /\ ~HasBuiltTx(c) /\ HasBuiltTx(c)')
          => BuiltTx(c)'.address = AccountAddress(signerAccount) ]_vars

\* The signer switched its account while the build was in flight: the message
\* was made for the first account, the transaction is returned under the second.
C2_Witness ==
  /\ op["c1"] = "createTransaction"
  /\ ret["c1"].state = "fulfilled"
  /\ args["c1"].txMsg.type = "MsgProtoSend"
  /\ args["c1"].txMsg.fromAddress = AccountAddress(1)
  /\ ret["c1"].value.address = AccountAddress(2)

\* C3: whatever the interleaving of the calls, the final bytes of a build are
\* those of its own encoder (its entropy, fee, memo and message), with a key
\* the signer reports and the signature the signer returned to this build,
\* which is a signature over this build's sign bytes.
C3_OwnSignatureAndDocument ==
  \A c \in CallIds : (Builds(c) /\ frame[c].rawHexBytes # NoValue) =>
    LET enc == EncoderOfCall(c)
        settled == frame[c].signSettled
    IN /\ frame[c].signer = enc
       /\ frame[c].signRequest = ToHex(marshalStdSignDoc(enc))
       /\ settled.state = "fulfilled"
       /\ settled.value.sig.over = ToHex(marshalStdSignDoc(enc))
       /\ \E a \in Accounts :
            frame[c].rawHexBytes =
              ToHex(marshalStdTx(enc, TxSignature(BufferFromHex(AccountPublicKey(a)),
                                                  BufferFromHex(settled.value))))

\* Two builds with different sign documents have both produced their bytes.
C3_Witness ==
  /\ \A c \in CallIds : Builds(c) /\ frame[c].rawHexBytes # NoValue
  /\ frame["c1"].signRequest # frame["c2"].signRequest

\* C4: a build called without a message fails with the missing-message error
\* before anything else happens: no entropy is drawn, no encoder is created,
\* the signer and the provider are not called.
C4_MissingMessageFailsFast ==
  \A c \in CallIds : (Builds(c) /\ Falsy(args[c].txMsg)) =>
    /\ pc[c] = "thrown"
    /\ ret[c] = Rejected(MissingMessageError)
    /\ trace[c] = <<>>
    /\ frame[c] = EmptyFrame

C4_Witness ==
  /\ op["c1"] = "createTransaction"
  /\ Falsy(args["c1"].txMsg)
  /\ ret["c1"].state = "rejected"

\* C5: when the encoder rejects the message, at its creation or while it
\* renders the sign document, the build fails with the encoder's error, the
\* signer is never called and no RawTransaction is produced.
C5_EncoderRejectsBeforeSigning ==
  \A c \in CallIds :
    (Builds(c) /\ (Has(trace[c], "createEncoder throws")
                   \/ Has(trace[c], "marshalStdSignDoc throws"))) =>
      /\ pc[c] = "thrown"
      /\ ret[c] = Rejected(UnsupportedMessageError)
      /\ ~Has(trace[c], "signer.sign")
      /\ ~Has(trace[c], "provider.sendTransaction")
      /\ ~HasBuiltTx(c)
      /\ frame[c].rawHexBytes = NoValue

C5_Witness ==
  /\ op["c1"] = "submit"
  /\ Has(trace["c1"], "marshalStdSignDoc throws")
  /\ pc["c1"] = "thrown"

\* C6: when the signer fails, the build fails with the signer's own error,
\* no final bytes are assembled, no RawTransaction is returned and, under
\* submit, the provider is never called.
C6_SignerErrorUnchanged ==
  \A c \in CallIds : (Builds(c) /\ frame[c].signSettled.state = "rejected") =>
    /\ pc[c] \in {"signSettled", "thrown"}
    /\ pc[c] = "thrown" => ret[c] = Rejected(frame[c].signSettled.value)
    /\ pc[c] = "signSettled" => ret[c] = Pending
    /\ frame[c].rawHexBytes = NoValue
    /\ ~Has(trace[c], "marshalStdTx")
    /\ ~HasBuiltTx(c)
    /\ ~Has(trace[c], "provider.sendTransaction")
    /\ ~Has(trace[c], "fetch")

C6_Witness ==
  /\ op["c1"] = "submit"
  /\ frame["c1"].signSettled = Rejected(SignerError)
  /\ pc["c1"] = "thrown"

\* C7: submit calls the provider's sendTransaction once, after its
\* createTransaction returned, with the RawTransaction createTransaction
\* returned, and settles as sendTransaction settled.
C7_SubmitSendsWhatItBuilt ==
  \A c \in CallIds : op[c] = "submit" =>
    LET tr == trace[c] IN
    /\ Count(tr, "provider.sendTransaction") <= 1
    /\ Has(tr, "provider.sendTransaction") =>
         /\ Before(tr, "createTransaction returns", "provider.sendTransaction")
         /\ frame[c].tx.txHex = frame[c].rawHexBytes
         /\ frame[c].sent = frame[c].tx
         /\ frame[c].perform.body = RawTxRequestToJSON(frame[c].tx)
    /\ (Has(tr, "createTransaction returns") /\ pc[c] \in {"returned", "thrown"}) =>
         /\ Count(tr, "provider.sendTransaction") = 1
         /\ frame[c].sendResult.state # "pending"
         /\ ret[c] = frame[c].sendResult
    /\ pc[c] = "returned" => Has(tr, "provider.sendTransaction settled")

C7_Witness ==
  /\ op["c1"] = "submit"
  /\ pc["c1"] = "returned"
  /\ ret["c1"].value.type = "TransactionResponse"

\* C8: submitRawTransaction hands the RawTransaction it was given to the
\* provider's sendTransaction as it is; it draws no entropy, creates no
\* encoder and does not call the signer.
C8_SubmitRawForwards ==
  \A c \in CallIds : op[c] = "submitRawTransaction" =>
    /\ frame[c].sent = args[c].tx
    /\ frame[c].perform.body = RawTxRequestToJSON(args[c].tx)
    /\ trace[c][1] = "provider.sendTransaction"
    /\ \A e \in {"Math.random", "createEncoder", "marshalStdSignDoc", "signer.sign",
                 "signer.getPublicKey", "signer.getAddress", "marshalStdTx"} :
         ~Has(trace[c], e)
    /\ frame[c].signer = NoValue
    /\ frame[c].signRequest = NoValue

C8_Witness ==
  /\ op["c1"] = "submitRawTransaction"
  /\ pc["c1"] = "returned"

\* C9: nothing is tried twice: a call asks the signer at most once, calls
\* sendTransaction at most once, and a sendTransaction sends at most one
\* HTTP request, whatever fails.
C9_NoInternalRetry ==
  \A c \in CallIds :
    /\ Count(trace[c], "Math.random") <= 1
    /\ Count(trace[c], "signer.sign") <= 1
    /\ Count(trace[c], "provider.sendTransaction") <= 1
    /\ Count(trace[c], "fetch") <= Count(trace[c], "provider.sendTransaction")

\* The one request failed and the call failed with it.
C9_Witness ==
  /\ op["c1"] = "submit"
  /\ pc["c1"] = "thrown"
  /\ frame["c1"].fetchSettled.state = "rejected"
  /\ Count(trace["c1"], "fetch") = 1

C11_StuckSignerBlocksOnlyItsBuild ==
  \A c \in CallIds :
    (op[c] = "createTransaction" /\ frame[c].signSettled.state = "fulfilled")
      ~> (ret[c].state = "fulfilled" /\ ret[c].value.type = "RawTxRequest")

\* A build has returned its RawTransaction while the other build, called
\* with the same arguments, still waits for the signer.
C11_Witness ==
  /\ pc["c1"] = "awaitSign"
  /\ args["c2"] = args["c1"]
  /\ op["c2"] = "createTransaction"
  /\ ret["c2"].state = "fulfilled"
  /\ ret["c2"].value.type = "RawTxRequest"

\* C12: the constructor called without a provider throws NoProviderError,
\* called with a provider and without a signer throws NoSignerError, and in
\* both cases no builder comes to exist; a builder that exists has its
\* provider and its signer.
C12_ConstructionFailsFast ==
  /\ [](Constructed => (~Falsy(builder.provider) /\ ~Falsy(builder.signer)))
  /\ [][ \A provider \in ProviderArgs, signer \in SignerArgs, chainID \in ChainIDArgs :
           Constructor(provider, signer, chainID) =>
             /\ Falsy(provider) =>
                  (lastSync' = Threw("constructor", "NoProviderError") /\ ~Constructed')
             /\ (~Falsy(provider) /\ Falsy(signer)) =>
                  (lastSync' = Threw("constructor", "NoSignerError") /\ ~Constructed')
             /\ (~Falsy(provider) /\ ~Falsy(signer)) =>
                  (lastSync' = Returned("constructor", NoValue) /\ Constructed') ]_vars

\* The constructor was called with a provider and without a signer.
C12_Witness ==
  /\ lastSync = Threw("constructor", "NoSignerError")
  /\ builder.state = "none"

\* C13: setChainID called with a value outside the enumeration throws
\* InvalidChainIDError and leaves the builder as it was; called with
\* 'mainnet', 'testnet' or 'localnet' it returns and getChainID then returns
\* that value.
C13_SetChainIDValidates ==
  [][ \A id \in SetChainIDArgs :
        setChainID(id) =>
          IF id \in {"mainnet", "testnet", "localnet"}
            THEN lastSync' = Returned("setChainID", NoValue) /\ getChainID' = id
            ELSE /\ lastSync' = Threw("setChainID", "InvalidChainIDError")
                 /\ builder' = builder
                 /\ getChainID' = getChainID ]_vars

\* A builder moved to testnet has refused another value and is on testnet still.
C13_Witness ==
  /\ Constructed
  /\ lastSync = Threw("setChainID", "InvalidChainIDError")
  /\ getChainID = "testnet"

\* C14: in every state of a builder, getChainID returns 'mainnet', 'testnet'
\* or 'localnet'.
C14_ChainIDAlwaysSupported ==
  Constructed => getChainID \in {"mainnet", "testnet", "localnet"}

\* C15: two builds called with the same message, fee and memo have different
\* sign documents: different entropy, different sign bytes.
C15_DistinctSignDocuments ==
  \A c, d \in CallIds :
    ( /\ c # d
      /\ Builds(c) /\ Builds(d)
      /\ args[c] = args[d]
      /\ Has(trace[c], "marshalStdSignDoc") /\ Has(trace[d], "marshalStdSignDoc") )
    => /\ frame[c].signer.entropy # frame[d].signer.entropy
       /\ frame[c].bytesToSign # frame[d].bytesToSign

\* The decimal digits of the integers n with 0 <= n < MAX_SAFE_INTEGER.
PlainDecimalStrings == {DecimalString(n) : n \in 0 .. (MAX_SAFE_INTEGER - 1)}

EveryDoubleGivesPlainDecimal ==
  \A sample \in DoublesBelowOne : entropyOf(sample) \in PlainDecimalStrings

\* C16: a build draws from Math.random() once, and the entropy made of it,
\* which is the one its encoder, its sign document and its final bytes carry,
\* is the decimal digits of an integer n, 0 <= n < MAX_SAFE_INTEGER; so it
\* is for every double Math.random() can return.
C16_EntropyOncePlainDecimal ==
  /\ EveryDoubleGivesPlainDecimal
  /\ \A c \in CallIds :
       /\ Count(trace[c], "Math.random") <= 1
       /\ Has(trace[c], "createEncoder") =>
            /\ Count(trace[c], "Math.random") = 1
            /\ Before(trace[c], "Math.random", "createEncoder")
            /\ frame[c].entropy \in PlainDecimalStrings
       /\ frame[c].signer # NoValue => frame[c].signer.entropy = frame[c].entropy
       /\ frame[c].bytesToSign # NoValue =>
            ToHex(frame[c].bytesToSign).entropy = frame[c].entropy
       /\ frame[c].rawHexBytes # NoValue => frame[c].rawHexBytes.entropy = frame[c].entropy

\* A build has returned whose entropy is the largest there is,
\* MAX_SAFE_INTEGER - 1.
C16_Witness ==
  /\ op["c1"] = "createTransaction"
  /\ ret["c1"].state = "fulfilled"
  /\ frame["c1"].signer.entropy = DecimalString(MAX_SAFE_INTEGER - 1)
  /\ ret["c1"].value.txHex.entropy = DecimalString(MAX_SAFE_INTEGER - 1)

\* The factories with an optional sender, and the parameters (which are also
\* the fields of the message) that default to the signer's address.
SenderFactories ==
  {"send", "govDAOTransfer", "govChangeParam", "govUpgrade", "govUpgradeVersion",
   "govUpgradeFeatures", "nodeUnstake", "nodeUnjail"}
SenderFields(name) ==
  IF name \in {"nodeUnstake", "nodeUnjail"} THEN {"nodeAddress", "signerAddress"}
                                            ELSE {"fromAddress"}

\* C17: in every call of a factory with an optional sender, an address left
\* out is, in the message, the address the signer reports at that call, read
\* from the signer in that call; an address given is in the message as given,
\* and the signer is asked once per address left out and not otherwise.
C17_DefaultSenderReadPerCall ==
  [][ ( /\ Constructed /\ UNCHANGED <<builder, signerVars>>
        /\ lastSync'.op \in SenderFactories
        /\ lastSync'.threw = "none" ) =>
      LET name == lastSync'.op
          given == lastSync'.args
          msg == lastSync'.returned
          omitted == {f \in SenderFields(name) : given[f].type = "undefined"}
      IN /\ \A f \in SenderFields(name) :
              msg[f] = IF f \in omitted THEN AccountAddress(signerAccount)
                                        ELSE given[f].value
         /\ Count(lastSync'.reads, "signer.getAddress") = Cardinality(omitted)
         /\ Len(lastSync'.reads) = Cardinality(omitted) ]_vars

\* After the signer changed its account, a message was made with one address
\* left out, which is the second account's, and one given.
C17_Witness ==
  /\ signerAccount = 2
  /\ lastSync.op = "nodeUnjail"
  /\ lastSync.args.nodeAddress = Undefined
  /\ lastSync.returned.nodeAddress = AccountAddress(2)
  /\ lastSync.returned.signerAddress = "addr7"
  /\ lastSync.reads = <<"signer.getAddress">>

RECURSIVE SortedDeep(_)
\* The keys of every object of a value ascend, at every depth.
SortedDeep(v) ==
  CASE v[1] = "obj" ->
         /\ \A i \in 1 .. (Len(v[2]) - 1) :
              KeyLess(v[2][i][1], v[2][i + 1][1])
         /\ \A i \in 1 .. Len(v[2]) : SortedDeep(v[2][i][2])
    [] v[1] = "arr" -> \A i \in 1 .. Len(v[2]) : SortedDeep(v[2][i])
    [] OTHER -> TRUE

RECURSIVE SameUpToKeyOrder(_, _)
\* Two values differ at most in the order of the members of their objects:
\* their arrays have the same elements in the same order.
SameUpToKeyOrder(v, w) ==
  IF v[1] # w[1] THEN FALSE
  ELSE CASE v[1] = "obj" ->
              /\ Len(v[2]) = Len(w[2])
              /\ \A i \in 1 .. Len(v[2]) : \E j \in 1 .. Len(w[2]) :
                   /\ w[2][j][1] = v[2][i][1]
                   /\ SameUpToKeyOrder(v[2][i][2], w[2][j][2])
         [] v[1] = "arr" ->
              /\ Len(v[2]) = Len(w[2])
              /\ \A i \in 1 .. Len(v[2]) : SameUpToKeyOrder(v[2][i], w[2][i])
         [] OTHER -> v = w

\* C18: the text stringifyObjectWithSort returns has the keys of every
\* object in ascending order at every depth and the elements of every array
\* in the order of the argument; it is the same text for every argument that
\* differs only in the order of its keys; and canonicalizing the parsed text
\* gives the text again.
C18_CanonicalizeSortedStable ==
  lastSync.op = "stringifyObjectWithSort" =>
    LET obj == lastSync.args
        text == lastSync.returned
        parsed == JSONParse(text)
    IN /\ lastSync.threw = "none"
       /\ SortedDeep(parsed)
       /\ SameUpToKeyOrder(obj, parsed)
       /\ \A other \in StringifyArgs :
            SameUpToKeyOrder(obj, other) => stringifyObjectWithSort(other).returned = text
       /\ stringifyObjectWithSort(parsed).returned = text

\* The value of the test, and the text the test expects.
C18_Witness ==
  /\ lastSync.op = "stringifyObjectWithSort"
  /\ lastSync.args = TestValue
  /\ Text(lastSync.returned)
       = "{\"a\":1,\"ab\":{\"x\":\"1\",\"y\":{\"1\":1,\"2\":2,\"3\":3},\"z\":\"3\"},\"abc\":[3,2,1]}"

\* C19: for key material of 64 bytes, publicKeyFromPrivate returns bytes
\* 32 to 63 of it: digits 64 to 127 of its 128 hex digits.
C19_PublicKeyIsSecondHalf ==
  (lastSync.op = "publicKeyFromPrivate" /\ Len(lastSync.args) = 128) =>
    /\ lastSync.threw = "none"
    /\ Len(lastSync.returned) = 64
    /\ \A i \in 0 .. 63 : lastSync.returned[i + 1] = lastSync.args[64 + i + 1]
    /\ \A i \in 0 .. 31 :
         HexToBytes(lastSync.returned)[i + 1] = HexToBytes(lastSync.args)[32 + i + 1]

\* The key pair of the test.
C19_Witness ==
  /\ lastSync.op = "publicKeyFromPrivate"
  /\ lastSync.args = PRIVATE_KEY
  /\ lastSync.returned = PUBLIC_KEY


\* C20: a dispatch or relay call made with retryAttempts = N issues at most
\* N + 1 HTTP requests, and exactly one once it has settled with N = 0.
\* perform retries from its .catch handler and again, in the same call, when
\* the retry it awaited there answers with ok === false: the requests of one
\* call can number up to 2^(N+1) - 1.
C20_AtMostNPlusOneRequests ==
  \A c \in CallIds :
    (op[c] \in {"dispatch", "relay"} /\ frame[c].perform # NoValue) =>
      /\ Count(trace[c], "fetch") <= frame[c].perform.retryAttempts + 1
      /\ (frame[c].perform.retryAttempts = 0 /\ pc[c] \in {"returned", "thrown"})
           => Count(trace[c], "fetch") = 1


\* The perform call that received the settled fetch of call c can still
\* retry.
RetriesRemain(c) == frame[c].perform.retriesPerformed < frame[c].perform.retryAttempts
NetworkError(c) == frame[c].fetchSettled.state = "rejected"
NonOkResponse(c) ==
  frame[c].fetchSettled.state = "fulfilled" /\ ~frame[c].fetchSettled.value.ok
AnotherAttempt(c) ==
  /\ pc'[c] = "awaitFetch"
  /\ Count(trace'[c], "fetch") = Count(trace[c], "fetch") + 1

C22_DispatchFailures ==
  \A c \in CallIds :
    (op[c] = "dispatch" /\ pc[c] = "thrown") =>
      IF Len(args[c].dispatchers) = 0
        THEN /\ ~Has(trace[c], "fetch")
             /\ ret[c].state = "rejected"
        ELSE /\ ret[c].state = "rejected"
             /\ ret[c].value.name \in {"TimeoutError", "DispatchersFailureError"}
             /\ ret[c].value.name = "TimeoutError"
                  <=> /\ frame[c].performed.state = "rejected"
                      /\ frame[c].performed.value.name = "AbortError"
             /\ frame[c].performed.state = "fulfilled"
                  => frame[c].performed.value.body # "accepted"

\* One dispatch call has timed out on its retry, the other was answered
\* without a session.
C22_Witness ==
  \E c, d \in CallIds :
    /\ op[c] = "dispatch" /\ pc[c] = "thrown"
    /\ Len(args[c].dispatchers) > 0
    /\ Count(trace[c], "fetch") >= 2
    /\ ret[c].value.name = "TimeoutError"
    /\ op[d] = "dispatch" /\ pc[d] = "thrown"
    /\ frame[d].performed.state = "fulfilled"
    /\ ret[d].value.name = "DispatchersFailureError"


\* C23: the request of getNodes goes to the route that lists nodes, which
\* is not the route the request of getApps goes to: no request of getNodes
\* has the URL of a request of getApps.
C23_GetNodesRoute ==
  \A c, d \in CallIds :
    (op[c] = "getNodes" /\ op[d] = "getApps") =>
      /\ frame[c].perform.route # frame[d].perform.route
      /\ frame[c].request.url # frame[d].request.url


\* What the two queries of a getType call that returned were answered with.
NodeHasServiceUrl(c) ==
  "service_url" \in KeysOf("V1RpcRoutes.QueryNode", frame[c].performed.value.body)
AppHasMaxRelays(c) ==
  "max_relays" \in KeysOf("V1RpcRoutes.QueryApp", frame[c].appRes.body)

\* C24: getType sends the app query, and once it is answered the node
\* query, both for the address it was given; it returns 'app' exactly when
\* the node response has no service_url and the app response has
\* max_relays, 'node' exactly when the node response has service_url and
\* the app response has no max_relays, and 'account' otherwise.
C24_GetTypeClassifies ==
  \A c \in CallIds :
    op[c] = "getType" =>
      /\ frame[c].request.body = [address |-> args[c].address]
      /\ frame[c].perform.route \in {"V1RpcRoutes.QueryApp", "V1RpcRoutes.QueryNode"}
      /\ (frame[c].perform.route = "V1RpcRoutes.QueryApp")
           <=> (Count(trace[c], "fetch") = 1)
      /\ (frame[c].perform.route = "V1RpcRoutes.QueryNode")
           <=> (Count(trace[c], "fetch") = 2 /\ frame[c].appRes # NoValue)
      /\ pc[c] = "returned" =>
           /\ Count(trace[c], "fetch") = 2
           /\ ret[c].value \in {"app", "node", "account"}
           /\ ret[c].value = "app" <=> (~NodeHasServiceUrl(c) /\ AppHasMaxRelays(c))
           /\ ret[c].value = "node" <=> (NodeHasServiceUrl(c) /\ ~AppHasMaxRelays(c))
           /\ ret[c].value = "account" <=> (NodeHasServiceUrl(c) <=> AppHasMaxRelays(c))

\* One getType call found both fields and answered 'account', the other
\* found neither.
C24_Witness ==
  \E c, d \in CallIds :
    /\ op[c] = "getType" /\ pc[c] = "returned"
    /\ NodeHasServiceUrl(c) /\ AppHasMaxRelays(c) /\ ret[c].value = "account"
    /\ op[d] = "getType" /\ pc[d] = "returned"
    /\ ~NodeHasServiceUrl(d) /\ ~AppHasMaxRelays(d) /\ ret[d].value = "account"


\* C25: the encoder of a build is created with the chain ID the builder
\* holds at that moment and is the encoder of the build from then on: the
\* sign document carries that chain ID, and the final bytes are rendered by
\* that encoder around a signature over that sign document, whatever
\* setChainID did while the signer call was pending.
C25_OneChainIDPerBuild ==
  /\ [](\A c \in CallIds :
          frame[c].signer # NoValue =>
            /\ frame[c].bytesToSign # NoValue =>
                 ToHex(frame[c].bytesToSign).chain_id = frame[c].signer.chainID
            /\ frame[c].rawHexBytes # NoValue =>
                 /\ frame[c].rawHexBytes
                      = ToHex(marshalStdTx(frame[c].signer, frame[c].marshalledTx))
                 /\ ToHex(frame[c].rawHexBytes.signature.signature).sig.over.chain_id
                      = frame[c].signer.chainID)
  /\ [][\A c \in CallIds :
          /\ (frame[c].signer = NoValue /\ frame'[c].signer # NoValue)
               => frame'[c].signer.chainID = builder.chainID
          /\ frame[c].signer # NoValue => frame'[c].signer = frame[c].signer
          /\ frame[c].bytesToSign # NoValue
               => frame'[c].bytesToSign = frame[c].bytesToSign]_vars

\* setChainID has taken the builder to another chain while the signer call
\* of a build was pending: the signer has signed the document of the
\* build's chain and the final bytes are about to be rendered.
C25_Witness ==
  /\ op["c1"] = "createTransaction" /\ pc["c1"] = "signSettled"
  /\ frame["c1"].signSettled.state = "fulfilled"
  /\ frame["c1"].signer.chainID = "mainnet"
  /\ lastSync.op = "setChainID" /\ lastSync.threw = "none"
  /\ builder.chainID = "testnet"
  /\ frame["c1"].signSettled.value.sig.over.chain_id = "mainnet"

====
